---- MODULE Spec2Model ----
(***************************************************************************)
(* Model of the Syncthing conflict resolver (src/main.py).                 *)
(*                                                                         *)
(* A file name or a path is a sequence of one-character strings, so that   *)
(* the regular expressions, the split and the path joins of the script     *)
(* work on characters as they do in Python.  A session is a sequence of    *)
(* runs of the script on one directory tree: each run scans, groups,       *)
(* plans, and then prints and executes its actions one by one.             *)
(***************************************************************************)
EXTENDS Integers, Sequences, FiniteSets, TLC

VARIABLES
    fs,             \* the files on disk: path -> [content, size, mtime]
    dirs,           \* the directories that exist
    dry_run,        \* args.dry_run of the current run
    backup_dir,     \* args.backup_dir (<<>> when the option is not given)
    pc,             \* position of the current run in main()
    conflict_files, \* the list built by the scan loop
    actions,        \* the list built by the planning loop
    idx,            \* index of the action the processing loop is at
    stdout,         \* the report rows printed so far by the current run
    mutated,        \* conflict paths a mutating call was made on in this run
    run,            \* number of the current run in the session
    startFs,        \* fs and dirs when the current run started
    prev,           \* how the previous run of the session ended, and what a
                    \* previous dry run found and printed
    expect          \* after an interruption: the state the interrupted run
                    \* would have ended in if it had been left to finish

vars == <<fs, dirs, dry_run, backup_dir, pc, conflict_files, actions, idx,
          stdout, mutated, run, startFs, prev, expect>>

----------------------------------------------------------------------------
(* Characters and literals                                                 *)

Digits == {"0","1","2","3","4","5","6","7","8","9"}

Upper == {"A","B","C","D","E","F","G","H","I","J","K","L","M",
          "N","O","P","Q","R","S","T","U","V","W","X","Y","Z"}

\* the character class [A-Z0-9] of both regular expressions
IdChars == Upper \cup Digits

DigitVal(c) ==
    CASE c = "0" -> 0 [] c = "1" -> 1 [] c = "2" -> 2 [] c = "3" -> 3
      [] c = "4" -> 4 [] c = "5" -> 5 [] c = "6" -> 6 [] c = "7" -> 7
      [] c = "8" -> 8 [] c = "9" -> 9

DigitChar(n) == <<"0","1","2","3","4","5","6","7","8","9">>[n + 1]

\* the literal the script splits file names on
Separator == <<".","s","y","n","c","-","c","o","n","f","l","i","c","t","-">>

\* the literal re_timestamp starts with
Token == <<"s","y","n","c","-","c","o","n","f","l","i","c","t","-">>

Slash == <<"/">>

\* lit occurs in s at position i
StartsAt(s, i, lit) ==
    /\ i >= 1
    /\ i + Len(lit) - 1 <= Len(s)
    /\ SubSeq(s, i, i + Len(lit) - 1) = lit

AllIn(s, from, to, class) == \A k \in from..to : s[k] \in class

Least(S) == CHOOSE x \in S : \A y \in S : x <= y

Greatest(S) == CHOOSE x \in S : \A y \in S : x >= y

----------------------------------------------------------------------------
(* Paths                                                                   *)

\* os.path.join(root, file) for a root without trailing slash and a
\* relative file name
Join(d, n) == d \o Slash \o n

\* os.path.basename
Basename(p) ==
    LET cuts == {i \in 1..Len(p) : p[i] = "/"}
    IN  IF cuts = {} THEN p ELSE SubSeq(p, Greatest(cuts) + 1, Len(p))

\* os.path.dirname
Dirname(p) ==
    LET cuts == {i \in 1..Len(p) : p[i] = "/"}
    IN  IF cuts = {} THEN <<>> ELSE SubSeq(p, 1, Greatest(cuts) - 1)

----------------------------------------------------------------------------
(* File name parser                                                        *)

\* re_conflict.match(file): ^.+\.sync-conflict-.+
ReConflictMatch(file) ==
    \E i \in 2..Len(file) :
        StartsAt(file, i, Separator) /\ i + Len(Separator) <= Len(file)

\* the positions at which sync-conflict-(\d{8})-(\d{6})-[A-Z0-9]+ matches
ReTimestampAt(file) ==
    {i \in 1..Len(file) :
        /\ StartsAt(file, i, Token)
        /\ i + 30 <= Len(file)
        /\ AllIn(file, i + 14, i + 21, Digits)
        /\ file[i + 22] = "-"
        /\ AllIn(file, i + 23, i + 28, Digits)
        /\ file[i + 29] = "-"
        /\ file[i + 30] \in IdChars}

\* re_timestamp.search(file): the leftmost match, as its two groups
ReTimestampSearch(file) ==
    IF ReTimestampAt(file) = {} THEN <<>>
    ELSE LET i == Least(ReTimestampAt(file))
         IN  <<SubSeq(file, i + 14, i + 21), SubSeq(file, i + 23, i + 28)>>

\* int() of two or four digits
Num2(s, i) == 10 * DigitVal(s[i]) + DigitVal(s[i + 1])

Num4(s, i) == 100 * Num2(s, i) + Num2(s, i + 2)

IsLeap(y) == (y % 4 = 0 /\ y % 100 # 0) \/ y % 400 = 0

DaysInMonth(y, m) ==
    IF m = 2 THEN (IF IsLeap(y) THEN 29 ELSE 28)
    ELSE IF m \in {4, 6, 9, 11} THEN 30 ELSE 31

\* the fields "%Y%m%d %H%M%S" reads from eight and six digits
StrptimeFields(date_str, time_str) ==
    <<Num4(date_str, 1), Num2(date_str, 5), Num2(date_str, 7),
      Num2(time_str, 1), Num2(time_str, 3), Num2(time_str, 5)>>

\* datetime.strptime raises ValueError unless the fields are a date and a
\* time of day
StrptimeOk(date_str, time_str) ==
    LET f == StrptimeFields(date_str, time_str)
    IN  /\ f[1] \in 1..9999
        /\ f[2] \in 1..12
        /\ f[3] \in 1..DaysInMonth(f[1], f[2])
        /\ f[4] \in 0..23
        /\ f[5] \in 0..59
        /\ f[6] \in 0..59

\* order of datetime objects, on their fields
RECURSIVE TsBefore(_, _)
TsBefore(a, b) ==
    /\ a # <<>>
    /\ \/ a[1] < b[1]
       \/ a[1] = b[1] /\ TsBefore(Tail(a), Tail(b))

\* base_name.split('.sync-conflict-'): the start of every piece, left to
\* right, occurrences taken without overlap
RECURSIVE SplitFrom(_, _)
SplitFrom(s, from) ==
    LET occ == {i \in from..Len(s) : StartsAt(s, i, Separator)}
    IN  IF occ = {} THEN <<SubSeq(s, from, Len(s))>>
        ELSE <<SubSeq(s, from, Least(occ) - 1)>>
             \o SplitFrom(s, Least(occ) + Len(Separator))

Split(s) == SplitFrom(s, 1)

\* re.search(r'[A-Z0-9]+\.(.+)$', part): an identifier character, a dot
\* and at least one more character
MatchExt(part) ==
    \E k \in 2..(Len(part) - 1) : part[k] = "." /\ part[k - 1] \in IdChars

\* lines 44-56: the name the conflict file is promoted to.  A name that
\* matches re_conflict always splits into more than one piece, and both
\* branches of "if match_ext" leave file_name as the first piece.
FileName(file) ==
    LET original_parts == Split(Basename(file))
    IN  IF MatchExt(original_parts[2])
        THEN original_parts[1]
        ELSE original_parts[1]

\* strftime('%Y-%m-%d %H:%M:%S')
Pad2(n) == <<DigitChar(n \div 10), DigitChar(n % 10)>>

Strftime(t) ==
    Pad2(t[1] \div 100) \o Pad2(t[1] % 100) \o <<"-">> \o Pad2(t[2])
    \o <<"-">> \o Pad2(t[3]) \o <<" ">> \o Pad2(t[4]) \o <<":">>
    \o Pad2(t[5]) \o <<":">> \o Pad2(t[6])

----------------------------------------------------------------------------
(* The trees and arguments the session starts from                         *)

\* at most this many files are in the tree at the start
MaxFiles == 4

\* the script is run at most this many times in a session
MaxRuns == 2

\* args.path
Root == <<"s">>

\* a --backup-dir inside the scanned tree and one outside of it
ArchiveDir == <<"s","/","a","r","c","h","i","v","e">>

BakDir == <<"b","a","k">>

NoBackup == <<>>

ReportTxt == <<"r","e","p","o","r","t",".","t","x","t">>

Report == <<"r","e","p","o","r","t">>

DotTxt == <<".","t","x","t">>

Jan01 == <<"2","0","2","4","0","1","0","1">>

Jan05 == <<"2","0","2","4","0","1","0","5">>

Jan09 == <<"2","0","2","4","0","1","0","9">>

Month13 == <<"2","0","2","4","1","3","0","1">>

Noon == <<"1","2","0","0","0","0">>

Nine == <<"0","9","0","0","0","0">>

IdABC == <<"A","B","C","1","2","3">>

IdXYZ == <<"X","Y","Z","7","8","9">>

IdDEF == <<"D","E","F","4","5","6">>

\* <base>.sync-conflict-<YYYYMMDD>-<HHMMSS>-<ID>[.<ext>]
ConflictName(base, date, time, id, ext) ==
    base \o Separator \o date \o <<"-">> \o time \o <<"-">> \o id \o ext

\* a file of the initial tree; its content is named by a number of its own
\* and its modification time differs from that of every other file
File(dir, name, size, k) ==
    [path |-> Join(dir, name), content |-> k, size |-> size,
     mtime |-> <<2023, 12, k, 8, 30, 0>>]

\* the files an initial tree is made of
Candidates ==
    { File(Root, ReportTxt, 1, 1),
      File(Root, ConflictName(ReportTxt, Jan01, Noon, IdABC, <<>>), 1, 2),
      File(Root, ConflictName(ReportTxt, Jan05, Nine, IdXYZ, <<>>), 1, 3),
      File(Root, ConflictName(ReportTxt, Jan01, Noon, IdDEF, <<>>), 1, 4),
      File(Root, ConflictName(ReportTxt, Month13, Noon, IdABC, <<>>), 1, 6),
      File(Root, ReportTxt \o Separator \o <<"t","m","p">>, 1, 7),
      File(Root, ConflictName(ReportTxt, Jan09, Noon, IdABC, <<>>), 0, 8),
      File(ArchiveDir, ConflictName(ReportTxt, Jan01, Noon, IdABC, <<>>), 1, 9),
      File(ArchiveDir, ConflictName(ReportTxt, Jan05, Nine, IdXYZ, <<>>), 1, 10),
      File(ArchiveDir, ConflictName(Report, Jan01, Noon, IdABC, DotTxt), 1, 5) }

Tree(T) ==
    [p \in {c.path : c \in T} |->
        LET c == CHOOSE c \in T : c.path = p
        IN  [content |-> c.content, size |-> c.size, mtime |-> c.mtime]]

NoRun == [end |-> "none", dry |-> FALSE, stdout |-> <<>>, scan |-> <<>>]

Init ==
    /\ \E T \in SUBSET Candidates :
          /\ Cardinality(T) <= MaxFiles
          /\ fs = Tree(T)
    /\ backup_dir \in {NoBackup, BakDir, ArchiveDir}
    /\ dirs = {Root} \cup {Dirname(p) : p \in DOMAIN fs}
    /\ dry_run \in BOOLEAN
    /\ pc = "scan"
    /\ conflict_files = <<>>
    /\ actions = <<>>
    /\ idx = 1
    /\ stdout = <<>>
    /\ mutated = {}
    /\ run = 1
    /\ startFs = [fs |-> fs, dirs |-> dirs]
    /\ prev = NoRun
    /\ expect = <<>>

----------------------------------------------------------------------------
(* Lines 25-58: the scan                                                   *)

\* os.path.exists
Exists(files, ds, p) == p \in DOMAIN files \/ p \in ds

\* d is args.path or below it
UnderRoot(d) ==
    d = Root \/ (Len(d) > Len(Root) /\ SubSeq(d, 1, Len(Root) + 1) = Root \o Slash)

\* d is a proper ancestor of e
Above(d, e) == Len(e) > Len(d) /\ SubSeq(e, 1, Len(d) + 1) = d \o Slash

\* the files os.walk(args.path) yields
Walked(files) == {p \in DOMAIN files : UnderRoot(Dirname(p))}

\* every order the members of a set can be listed in
Listings(S) ==
    {o \in [1..Cardinality(S) -> S] :
        \A i, j \in 1..Cardinality(S) : i # j => o[i] # o[j]}

\* the files of the directories of dir_order, directory after directory, the
\* files of one directory in any order
RECURSIVE FilesAlong(_, _)
FilesAlong(W, dir_order) ==
    IF dir_order = <<>> THEN {<<>>}
    ELSE {here \o below :
            here \in Listings({p \in W : Dirname(p) = Head(dir_order)}),
            below \in FilesAlong(W, Tail(dir_order))}

\* the orders os.walk may yield the files in: a directory's files together,
\* in any order, and a directory before the directories below it
WalkOrders(files) ==
    LET W == Walked(files)
        D == {Dirname(p) : p \in W}
        dir_orders ==
            {o \in Listings(D) :
                \A i, j \in 1..Cardinality(D) : i < j => ~Above(o[j], o[i])}
    IN  UNION {FilesAlong(W, o) : o \in dir_orders}

\* the file is looked at by lines 34-58: its name matches re_conflict and it
\* is not zero-length
Considered(files, p) ==
    ReConflictMatch(Basename(p)) /\ files[p].size # 0

\* line 38 raises ValueError on this file
StrptimeRaises(files, p) ==
    /\ Considered(files, p)
    /\ LET m == ReTimestampSearch(Basename(p))
       IN  m # <<>> /\ ~StrptimeOk(m[1], m[2])

\* line 58 appends a record for this file
Recorded(files, p) ==
    /\ Considered(files, p)
    /\ LET m == ReTimestampSearch(Basename(p))
       IN  m # <<>> /\ StrptimeOk(m[1], m[2])

\* the namedtuple of line 58
ConflictItem(p) ==
    LET m == ReTimestampSearch(Basename(p))
    IN  [conflict_path |-> p,
         file_path |-> Join(Dirname(p), FileName(Basename(p))),
         timestamp |-> StrptimeFields(m[1], m[2])]

\* the records lines 28-58 make of the files of the tree
Found(files) ==
    {ConflictItem(p) : p \in {q \in Walked(files) : Recorded(files, q)}}

\* the list the scan loop builds: the records of the files that get one, in
\* the order the walk yields the files in
RECURSIVE ScanLoop(_, _)
ScanLoop(found, order) ==
    IF order = <<>> THEN <<>>
    ELSE LET here == {r \in found : r.conflict_path = Head(order)}
         IN  (IF here = {} THEN <<>> ELSE <<CHOOSE r \in here : TRUE>>)
             \o ScanLoop(found, Tail(order))

\* the scan loop runs to its end, or strptime raises and the run dies with
\* a traceback before anything is printed or changed
Scan ==
    /\ pc = "scan"
    /\ IF \E p \in Walked(fs) : StrptimeRaises(fs, p)
       THEN /\ pc' = "crashed"
            /\ UNCHANGED conflict_files
       ELSE /\ LET found == Found(fs)
               IN  \E order \in WalkOrders(fs) :
                       conflict_files' = ScanLoop(found, order)
            /\ pc' = "plan"
    /\ UNCHANGED <<fs, dirs, dry_run, backup_dir, actions, idx, stdout,
                   mutated, run, startFs, prev, expect>>

----------------------------------------------------------------------------
(* Lines 60-99: grouping, ranking and planning                             *)

Range(seq) == {seq[i] : i \in 1..Len(seq)}

\* the keys of conflicts_by_path in insertion order (lines 61-65)
RECURSIVE GroupKeys(_)
GroupKeys(records) ==
    IF records = <<>> THEN <<>>
    ELSE LET n == Len(records)
             before == GroupKeys(SubSeq(records, 1, n - 1))
         IN  IF records[n].file_path \in Range(before)
             THEN before
             ELSE Append(before, records[n].file_path)

\* conflicts_by_path[file_path] before the sort
GroupOf(records, file_path) ==
    LET InGroup(r) == r.file_path = file_path
    IN  SelectSeq(records, InGroup)

\* put r into a list sorted newest first, behind the records that are as
\* new as r or newer
InsertByTimestamp(sorted, r) ==
    LET k == Cardinality({i \in 1..Len(sorted) :
                 ~TsBefore(sorted[i].timestamp, r.timestamp)})
    IN  SubSeq(sorted, 1, k) \o <<r>> \o SubSeq(sorted, k + 1, Len(sorted))

\* the sort left out: the records stay in the order they were found in
SortSkipped(conflicts) == conflicts

\* the sort without reverse=True: oldest first
RECURSIVE SortOldestFirst(_)
SortOldestFirst(conflicts) ==
    IF conflicts = <<>> THEN <<>>
    ELSE LET n == Len(conflicts)
             sorted == SortOldestFirst(SubSeq(conflicts, 1, n - 1))
             k == Cardinality({i \in 1..Len(sorted) :
                      ~TsBefore(conflicts[n].timestamp, sorted[i].timestamp)})
         IN  SubSeq(sorted, 1, k) \o <<conflicts[n]>>
             \o SubSeq(sorted, k + 1, Len(sorted))

\* conflicts.sort(key=lambda x: x.timestamp, reverse=True): a stable sort,
\* records of equal timestamp keep the order they were found in
RECURSIVE SortNewestFirst(_)
SortNewestFirst(conflicts) ==
    IF conflicts = <<>> THEN <<>>
    ELSE LET n == Len(conflicts)
         IN  InsertByTimestamp(SortNewestFirst(SubSeq(conflicts, 1, n - 1)),
                               conflicts[n])

ACTION_KEEP == "keep"

ACTION_DELETE == "delete"

ACTION_BACKUP == "backup"

NA == <<"N","/","A">>

\* lines 76-78
OriginalTimestamp(files, ds, file_path) ==
    IF Exists(files, ds, file_path) THEN Strftime(files[file_path].mtime)
    ELSE NA

\* lines 87-99: what becomes of an older conflict
LoserAction(bdir) == IF bdir # NoBackup THEN ACTION_BACKUP ELSE ACTION_DELETE

\* lines 74-99 for one group, its conflicts sorted
PlanGroup(files, ds, bdir, file_path, conflicts) ==
    [i \in 1..Len(conflicts) |->
        [conflict |-> conflicts[i],
         action |-> IF i = 1 THEN ACTION_KEEP ELSE LoserAction(bdir),
         original_timestamp |-> OriginalTimestamp(files, ds, file_path)]]

\* lines 72-99: the actions of all groups, in the order of the keys
RECURSIVE PlanLoop(_, _, _, _, _)
PlanLoop(files, ds, bdir, records, keys) ==
    IF keys = <<>> THEN <<>>
    ELSE PlanGroup(files, ds, bdir, Head(keys),
                   SortNewestFirst(GroupOf(records, Head(keys))))
         \o PlanLoop(files, ds, bdir, records, Tail(keys))

PlanActions(files, ds, bdir, records) ==
    PlanLoop(files, ds, bdir, records, GroupKeys(records))

----------------------------------------------------------------------------
(* Lines 101-149: the report                                               *)

ActionWidth == 10

TimestampWidth == 19

\* the fallback of shutil.get_terminal_size
TerminalWidth == 120

OtherColumnsWidth == ActionWidth + (TimestampWidth * 2) + 9

FilenameWidth ==
    IF TerminalWidth - OtherColumnsWidth > 40
    THEN TerminalWidth - OtherColumnsWidth ELSE 40

\* lines 122 and 126: the header and the rule under it, by their columns
HeaderLines ==
    << <<"Filename", "Action", "Original Time", "Conflict Time">>,
       <<"-", FilenameWidth + OtherColumnsWidth>> >>

\* lines 136-141
ActionText(action_type) ==
    IF action_type = ACTION_KEEP THEN <<"K","E","E","P">>
    ELSE IF action_type = ACTION_DELETE THEN <<"D","E","L","E","T","E">>
    ELSE <<"B","A","C","K","U","P">>

\* lines 144-146
DisplayName(filename) ==
    IF Len(filename) > FilenameWidth
    THEN <<".", ".", ".">>
         \o SubSeq(filename, Len(filename) - (FilenameWidth - 3) + 1,
                   Len(filename))
    ELSE filename

\* line 149: the row, by its four columns (the padding of row_format is a
\* function of the columns and is left out)
Row(action_info) ==
    <<DisplayName(action_info.conflict.conflict_path),
      ActionText(action_info.action),
      action_info.original_timestamp,
      Strftime(action_info.conflict.timestamp)>>

----------------------------------------------------------------------------
(* Lines 151-167: the file system calls                                    *)

\* os.rename and shutil.move of a file onto a file path: the destination is
\* replaced and the file keeps its content, size and modification time;
\* renaming a file onto itself does nothing
Rename(files, src, dst) ==
    IF src = dst THEN files
    ELSE [p \in (DOMAIN files \ {src}) \cup {dst} |->
             IF p = dst THEN files[src] ELSE files[p]]

\* os.remove
Remove(files, p) == [q \in DOMAIN files \ {p} |-> files[q]]

\* lines 153-167 on the disk st = [fs, dirs]
ApplyAction(st, action_info, bdir) ==
    LET conflict == action_info.conflict
        action_type == action_info.action
    IN  IF ~Exists(st.fs, st.dirs, conflict.conflict_path) THEN st
        ELSE IF action_type = ACTION_KEEP
        THEN [st EXCEPT !.fs = Rename(@, conflict.conflict_path,
                                      conflict.file_path)]
        ELSE IF action_type = ACTION_DELETE
        THEN [st EXCEPT !.fs = Remove(@, conflict.conflict_path)]
        ELSE [fs |-> Rename(st.fs, conflict.conflict_path,
                            Join(bdir, Basename(conflict.conflict_path))),
              dirs |-> st.dirs \cup {bdir}]

\* the test of args.dry_run left out
PerformAlways(st, action_info, bdir, dry) == ApplyAction(st, action_info, bdir)

\* line 152: nothing is called in dry run mode
Perform(st, action_info, bdir, dry) ==
    IF dry THEN st ELSE ApplyAction(st, action_info, bdir)

\* the disk after the actions from position i on were performed
RECURSIVE PerformFrom(_, _, _, _)
PerformFrom(st, acts, i, bdir) ==
    IF i > Len(acts) THEN st
    ELSE PerformFrom(Perform(st, acts[i], bdir, FALSE), acts, i + 1, bdir)

----------------------------------------------------------------------------
(* The steps of a run                                                      *)

Disk == [fs |-> fs, dirs |-> dirs]

\* lines 60-126: group, sort, plan, print the header
Plan ==
    /\ pc = "plan"
    /\ actions' = PlanActions(fs, dirs, backup_dir, conflict_files)
    /\ stdout' = HeaderLines
    /\ idx' = 1
    /\ pc' = IF actions' = <<>> THEN "done" ELSE "print"
    /\ UNCHANGED <<fs, dirs, dry_run, backup_dir, conflict_files, mutated,
                   run, startFs, prev, expect>>

\* the row printed in dry run mode only
PrintRowDryOnly ==
    /\ pc = "print"
    /\ stdout' = IF dry_run THEN Append(stdout, Row(actions[idx])) ELSE stdout
    /\ pc' = "exec"
    /\ UNCHANGED <<fs, dirs, dry_run, backup_dir, conflict_files, actions,
                   idx, mutated, run, startFs, prev, expect>>

\* lines 129-149: the row of the action the loop is at
PrintRow ==
    /\ pc = "print"
    /\ stdout' = Append(stdout, Row(actions[idx]))
    /\ pc' = "exec"
    /\ UNCHANGED <<fs, dirs, dry_run, backup_dir, conflict_files, actions,
                   idx, mutated, run, startFs, prev, expect>>

\* lines 151-167: the action itself, then on to the next one
Execute ==
    /\ pc = "exec"
    /\ LET after == Perform(Disk, actions[idx], backup_dir, dry_run)
       IN  /\ fs' = after.fs
           /\ dirs' = after.dirs
    /\ mutated' =
          IF ~dry_run /\ Exists(fs, dirs, actions[idx].conflict.conflict_path)
          THEN mutated \cup {actions[idx].conflict.conflict_path}
          ELSE mutated
    /\ idx' = idx + 1
    /\ pc' = IF idx < Len(actions) THEN "print" ELSE "done"
    /\ UNCHANGED <<dry_run, backup_dir, conflict_files, actions, stdout, run,
                   startFs, prev, expect>>

\* the first run of a session, when live, is stopped between two actions;
\* the runs that follow are left to finish
Interrupt ==
    /\ pc = "print"
    /\ ~dry_run
    /\ prev.end = "none"
    /\ pc' = "killed"
    /\ expect' = PerformFrom(Disk, actions, idx, backup_dir)
    /\ UNCHANGED <<fs, dirs, dry_run, backup_dir, conflict_files, actions,
                   idx, stdout, mutated, run, startFs, prev>>

\* the script is run again on the tree as it is, with the same path and
\* backup directory, and live
Rerun ==
    /\ pc \in {"done", "killed"}
    /\ run < MaxRuns
    /\ prev' = [end |-> pc, dry |-> dry_run,
                stdout |-> IF dry_run THEN stdout ELSE <<>>,
                scan |-> IF dry_run THEN conflict_files ELSE <<>>]
    /\ dry_run' = FALSE
    /\ pc' = "scan"
    /\ conflict_files' = <<>>
    /\ actions' = <<>>
    /\ idx' = 1
    /\ stdout' = <<>>
    /\ mutated' = {}
    /\ run' = run + 1
    /\ startFs' = Disk
    /\ UNCHANGED <<fs, dirs, backup_dir, expect>>

Next == Scan \/ Plan \/ PrintRow \/ Execute \/ Interrupt \/ Rerun

Spec == Init /\ [][Next]_vars

----------------------------------------------------------------------------
(* Vocabulary of the properties                                            *)

\* the planning loop has run
Planned == pc \in {"print", "exec", "done", "killed"}

Records == Range(conflict_files)

\* the members of the group of an original path
Members(records, file_path) == {r \in Range(records) : r.file_path = file_path}

OriginalPaths(records) == {r.file_path : r \in Range(records)}

\* the members no other member of their group is newer than
Newest(records, file_path) ==
    {m \in Members(records, file_path) :
        \A o \in Members(records, file_path) :
            ~TsBefore(m.timestamp, o.timestamp)}

\* the positions of the action list that are about record r
PlansFor(acts, r) == {i \in DOMAIN acts : acts[i].conflict = r}

\* which disposition each record got
Dispositions(acts) == {<<acts[i].conflict, acts[i].action>> : i \in DOMAIN acts}

\* the rows printed so far, the header lines left out
RowsPrinted == Len(stdout) - Len(HeaderLines)

RowPrinted(i) ==
    /\ i <= RowsPrinted
    /\ stdout[i + Len(HeaderLines)] = Row(actions[i])

\* every order the same records can be discovered in
DiscoveryOrders(seq) ==
    LET n == Len(seq)
    IN  {[i \in 1..n |-> seq[f[i]]] :
            f \in {g \in [1..n -> 1..n] :
                      \A i, j \in 1..n : i # j => g[i] # g[j]}}

----------------------------------------------------------------------------
(* C1 *)

\* C1: once the plan is made, every scanned record has exactly one entry in
\* the action list and every entry is about a scanned record; in every
\* group exactly one member is Keep, no member of the group is newer than
\* it, and every other member is Backup when a backup directory is
\* configured and Delete otherwise.
C1_Resolution ==
    Planned =>
        /\ \A r \in Records : Cardinality(PlansFor(actions, r)) = 1
        /\ \A i \in DOMAIN actions : actions[i].conflict \in Records
        /\ \A k \in OriginalPaths(conflict_files) :
              LET members == Members(conflict_files, k)
                  keeps == {i \in DOMAIN actions :
                               /\ actions[i].conflict \in members
                               /\ actions[i].action = ACTION_KEEP}
              IN  /\ Cardinality(keeps) = 1
                  /\ \A i \in keeps :
                        actions[i].conflict \in Newest(conflict_files, k)
                  /\ \A i \in DOMAIN actions :
                        (actions[i].conflict \in members /\ i \notin keeps)
                            => actions[i].action =
                                  (IF backup_dir # NoBackup
                                   THEN ACTION_BACKUP ELSE ACTION_DELETE)

\* a plan with a backup directory for a group of three, next to another group
C1_Witness ==
    /\ Planned
    /\ backup_dir # NoBackup
    /\ Cardinality(OriginalPaths(conflict_files)) >= 2
    /\ \E k \in OriginalPaths(conflict_files) :
          Cardinality(Members(conflict_files, k)) >= 3

----------------------------------------------------------------------------
(* C5 *)

\* C5 as stated: whatever order the records are discovered in, every record
\* gets the same disposition, also in groups where members share a
\* timestamp.
C5_AnyOrder ==
    pc = "plan" =>
        \A other \in DiscoveryOrders(conflict_files) :
            Dispositions(PlanActions(fs, dirs, backup_dir, other))
                = Dispositions(PlanActions(fs, dirs, backup_dir, conflict_files))

\* every group has one member that is newer than all its other members
UniqueNewest(records) ==
    \A k \in OriginalPaths(records) : Cardinality(Newest(records, k)) = 1

\* C5 amended: when every group has a single newest member, every record
\* gets the same disposition whatever order the records are discovered in.
C5_AnyOrderUniqueNewest ==
    (pc = "plan" /\ UniqueNewest(conflict_files)) =>
        \A other \in DiscoveryOrders(conflict_files) :
            Dispositions(PlanActions(fs, dirs, backup_dir, other))
                = Dispositions(PlanActions(fs, dirs, backup_dir, conflict_files))

\* three records of one group about to be planned, the newest found last and
\* the two older ones sharing a timestamp
C5_Witness ==
    /\ pc = "plan"
    /\ UniqueNewest(conflict_files)
    /\ Len(conflict_files) >= 3
    /\ \E k \in OriginalPaths(conflict_files) :
          /\ Cardinality(Members(conflict_files, k)) >= 3
          /\ conflict_files[Len(conflict_files)] \in Newest(conflict_files, k)

----------------------------------------------------------------------------
(* C4 *)

\* C4: a dry run leaves files and directories as they were when it started,
\* and a live run that follows it on the untouched tree and discovers the
\* records in the same order prints what the dry run printed.
C4_DryRun ==
    /\ dry_run => (fs = startFs.fs /\ dirs = startFs.dirs)
    /\ (/\ pc = "done"
        /\ ~dry_run
        /\ prev.end = "done"
        /\ prev.dry
        /\ conflict_files = prev.scan)
          => stdout = prev.stdout

\* a live run after a dry run, which printed the same three or more rows and
\* changed the tree
C4_Witness ==
    /\ pc = "done"
    /\ ~dry_run
    /\ prev.end = "done"
    /\ prev.dry
    /\ conflict_files = prev.scan
    /\ Len(actions) >= 3
    /\ stdout = prev.stdout
    /\ fs # startFs.fs

----------------------------------------------------------------------------
(* C9 *)

\* C9 as stated: once a mutating call was made on a member of a group, the
\* rows of all members of that group are on the output.
C9_GroupRowsFirst ==
    Planned =>
        \A i, j \in DOMAIN actions :
            (/\ actions[i].conflict.conflict_path \in mutated
             /\ actions[j].conflict.file_path = actions[i].conflict.file_path)
                => RowPrinted(j)

\* C9 amended: once a mutating call was made on a record, the row of that
\* record is on the output.
C9_OwnRowFirst ==
    Planned =>
        \A i \in DOMAIN actions :
            actions[i].conflict.conflict_path \in mutated => RowPrinted(i)

\* a live run that has promoted the winner of a group and has not yet
\* printed the row of the group's loser
C9_Witness ==
    /\ pc = "print"
    /\ ~dry_run
    /\ idx >= 2
    /\ actions[idx - 1].conflict.conflict_path \in mutated
    /\ actions[idx - 1].action = ACTION_KEEP
    /\ actions[idx].conflict.file_path = actions[idx - 1].conflict.file_path
    /\ RowPrinted(idx - 1)

----------------------------------------------------------------------------
(* C2 *)

\* the content the file had when the current run started
ContentAtStart(p) == startFs.fs[p].content

\* C2: when a live run has executed all its actions, the original path of
\* every group holds the content of a newest member of the group, and no
\* record that was not kept is still at the path it was scanned at.
C2_WinnerPromoted ==
    (pc = "done" /\ ~dry_run) =>
        /\ \A k \in OriginalPaths(conflict_files) :
              /\ k \in DOMAIN fs
              /\ \E m \in Newest(conflict_files, k) :
                    fs[k].content = ContentAtStart(m.conflict_path)
        /\ \A i \in DOMAIN actions :
              actions[i].action # ACTION_KEEP
                  => actions[i].conflict.conflict_path \notin DOMAIN fs

----------------------------------------------------------------------------
(* C3 *)

\* C3: the run that follows a completed live run plans no action.
C3_Idempotent ==
    (Planned /\ prev.end = "done" /\ ~prev.dry) => actions = <<>>

----------------------------------------------------------------------------
(* C6 *)

\* C6: when a live run with a backup directory has executed all its
\* actions, the content of every record planned for Backup is in the backup
\* directory under the name of the record's conflict file.
C6_BackupKept ==
    (pc = "done" /\ ~dry_run /\ backup_dir # NoBackup) =>
        \A i \in DOMAIN actions :
            actions[i].action = ACTION_BACKUP =>
                LET src == actions[i].conflict.conflict_path
                    dst == Join(backup_dir, Basename(src))
                IN  /\ dst \in DOMAIN fs
                    /\ fs[dst].content = ContentAtStart(src)

----------------------------------------------------------------------------
(* C7 *)

Bases == {ReportTxt, Report}

Dates == {Jan01, Jan05, Jan09}

Times == {Noon, Nine}

Ids == {IdABC, IdXYZ, IdDEF}

Extensions == {<<>>, DotTxt}

EndsWith(s, suffix) ==
    Len(s) >= Len(suffix) /\ SubSeq(s, Len(s) - Len(suffix) + 1, Len(s)) = suffix

\* <base> with the trailing extension put back unless <base> ends in it
Reconstructed(base, ext) ==
    IF ext # <<>> /\ ~EndsWith(base, ext) THEN base \o ext ELSE base

\* C7: the original path of a record whose file is named
\* <base>.sync-conflict-<date>-<time>-<id>[.<ext>] is <base> with the
\* extension re-appended when it is present and <base> does not end in it.
C7_OriginalPath ==
    \A r \in Records :
        \A base \in Bases, date \in Dates, time \in Times, id \in Ids,
           ext \in Extensions :
            Basename(r.conflict_path) = ConflictName(base, date, time, id, ext)
                => r.file_path
                     = Join(Dirname(r.conflict_path), Reconstructed(base, ext))

----------------------------------------------------------------------------
(* C8 *)

\* C8: when the run that follows an interrupted live run has executed all
\* its actions, files and directories are as the interrupted run would have
\* left them had it run to its end.
C8_Converges ==
    (pc = "done" /\ prev.end = "killed") => Disk = expect

----------------------------------------------------------------------------
(* C10 *)

\* the name has the conflict marker and re_timestamp finds no timestamp in
\* it, or finds digits that are no date and time
Malformed(file) ==
    /\ ReConflictMatch(file)
    /\ LET m == ReTimestampSearch(file)
       IN  m = <<>> \/ ~StrptimeOk(m[1], m[2])

\* C10: no run ends in an error, and once the scan is over there is no
\* record for a file with a malformed name and a record for every other
\* non-empty file that has the conflict marker.
C10_LenientParsing ==
    /\ pc # "crashed"
    /\ pc # "scan" =>
          \A p \in Walked(startFs.fs) :
              (\E r \in Records : r.conflict_path = p)
                  <=> (/\ ReConflictMatch(Basename(p))
                       /\ startFs.fs[p].size # 0
                       /\ ~Malformed(Basename(p)))

====
